---------------------------- MODULE Spec2Model ----------------------------
(***************************************************************************)
(* A model of DirHash (src/DirHash.cpp): the command line driver _tmain,   *)
(* the recursive tree walk HashDirectory / HashFile, the exclusion test    *)
(* IsExcludedName and the ordering compare_nocase.                         *)
(*                                                                         *)
(* Text is modelled as sequences of UTF-16 code units (naturals), bytes as *)
(* naturals below 256.  The hash context m_ctx of the OpenSSL primitives   *)
(* is modelled by the sequence of all bytes passed to Update so far.       *)
(***************************************************************************)
EXTENDS Integers, Sequences, FiniteSets, TLC

(***************************************************************************)
(* Text helpers                                                            *)
(***************************************************************************)

\* The printable ASCII characters in code order, starting at code 32.
Ascii ==
    << " ", "!", "\"", "#", "$", "%", "&", "'", "(", ")", "*", "+", ",", "-", ".", "/",
       "0", "1", "2", "3", "4", "5", "6", "7", "8", "9", ":", ";", "<", "=", ">", "?",
       "@", "A", "B", "C", "D", "E", "F", "G", "H", "I", "J", "K", "L", "M", "N", "O",
       "P", "Q", "R", "S", "T", "U", "V", "W", "X", "Y", "Z", "[", "\\", "]", "^", "_",
       "grave", "a", "b", "c", "d", "e", "f", "g", "h", "i", "j", "k", "l", "m", "n", "o",
       "p", "q", "r", "s", "t", "u", "v", "w", "x", "y", "z", "{", "|", "}", "~" >>

\* The code unit of a one-character string.
Ord(c) == 31 + (CHOOSE i \in 1..Len(Ascii) : Ascii[i] = c)

\* _T("...") : a wide string literal, given as a tuple of its characters.
W(s) == [i \in 1..Len(s) |-> Ord(s[i])]

\* A wide string of n copies of character c.
Rep(c, n) == [i \in 1..n |-> Ord(c)]

BACKSLASH == Ord("\\")
SLASH     == Ord("/")
COLON     == Ord(":")
DOT       == Ord(".")
STAR      == Ord("*")
QUESTION  == Ord("?")
NEWLINE   == 10

\* The bytes of a TCHAR buffer of Len(s) * sizeof(TCHAR) bytes (UTF-16, little endian).
WBytes(s) ==
    [i \in 1..(2 * Len(s)) |->
        IF i % 2 = 1 THEN s[(i + 1) \div 2] % 256 ELSE s[i \div 2] \div 256]

\* towlower / towupper in the C locale: only A-Z and a-z are folded.
UpperA == Ord("A")
UpperZ == Ord("Z")
LowerA == Ord("a")
LowerZ == Ord("z")
tolower(c) == IF c >= UpperA /\ c <= UpperZ THEN c + (LowerA - UpperA) ELSE c
toupper(c) == IF c >= LowerA /\ c <= LowerZ THEN c - (LowerA - UpperA) ELSE c

\* The first position at which the strings a and b differ; 0 if one is a
\* prefix of the other.
FirstDiff(a, b) ==
    LET n == IF Len(a) < Len(b) THEN Len(a) ELSE Len(b)
        D == { i \in 1..n : a[i] # b[i] }
    IN  IF D = { } THEN 0 ELSE CHOOSE i \in D : \A k \in D : i <= k

\* wcscmp: the case-sensitive comparison; the result is negative, zero or positive.
wcscmp(a, b) ==
    LET i == FirstDiff(a, b)
    IN  IF i = 0 THEN Len(a) - Len(b) ELSE a[i] - b[i]

\* _wcsicmp / _tcsicmp: compares the lower-cased strings code unit by code unit.
wcsicmp(a, b) ==
    wcscmp([i \in 1..Len(a) |-> tolower(a[i])], [i \in 1..Len(b) |-> tolower(b[i])])

(***************************************************************************)
(* Windows path helpers used by the program (shlwapi, strsafe)             *)
(***************************************************************************)

MAX_PATH == 260

\* lstrlen / _tcslen / wcslen
lstrlen(s) == Len(s)

\* StringCchLength(psz, cchMax, &len): the length when the terminator lies within
\* cchMax characters; otherwise the call fails and stores 0.
StringCchLength(psz, cchMax) == IF Len(psz) < cchMax THEN Len(psz) ELSE 0

\* PathMatchSpec with a single mask, from position i of name and j of mask:
\* '*' matches any run of characters (separators included), '?' any one
\* character, everything else is compared ignoring case; the whole of name
\* must be consumed.
RECURSIVE PathMatchSingleMask(_, _, _, _)
PathMatchSingleMask(name, i, mask, j) ==
    IF i <= Len(name) /\ j <= Len(mask)
    THEN IF mask[j] = STAR
         THEN \E k \in i..(Len(name) + 1) : PathMatchSingleMask(name, k, mask, j + 1)
         ELSE IF toupper(mask[j]) # toupper(name[i]) /\ mask[j] # QUESTION
              THEN FALSE
              ELSE PathMatchSingleMask(name, i + 1, mask, j + 1)
    ELSE i > Len(name) /\ \A k \in j..Len(mask) : mask[k] = STAR

\* PathMatchSpec(pszFile, pszSpec): "*.*" matches everything.
PathMatchSpec(pszFile, pszSpec) ==
    \/ pszSpec = << STAR, DOT, STAR >>
    \/ PathMatchSingleMask(pszFile, 1, pszSpec, 1)

\* The segments of a path between backslashes.
SplitPath(s) ==
    LET seps   == { i \in 1..Len(s) : s[i] = BACKSLASH }
        n      == Cardinality(seps)
        \* the position of the k-th backslash; 0 and Len(s) + 1 bound the path
        sep(k) == IF k = 0 THEN 0
                  ELSE IF k > n THEN Len(s) + 1
                  ELSE CHOOSE i \in seps : Cardinality({ j \in seps : j < i }) = k - 1
    IN  [k \in 1..(n + 1) |-> SubSeq(s, sep(k - 1) + 1, sep(k) - 1)]

RECURSIVE JoinPath(_)
JoinPath(segs) ==
    IF segs = << >> THEN << >>
    ELSE IF Len(segs) = 1 THEN segs[1]
    ELSE segs[1] \o << BACKSLASH >> \o JoinPath(Tail(segs))

\* Removes "." segments and lets ".." remove the segment before it.
RECURSIVE Simplify(_, _)
Simplify(segs, out) ==
    IF segs = << >> THEN out
    ELSE IF Head(segs) = << DOT >> THEN Simplify(Tail(segs), out)
    ELSE IF Head(segs) = << DOT, DOT >>
         THEN Simplify(Tail(segs), IF out = << >> THEN out ELSE SubSeq(out, 1, Len(out) - 1))
    ELSE Simplify(Tail(segs), Append(out, Head(segs)))

\* PathCanonicalize(buf, path): the path with its "." and ".." navigation
\* elements resolved; an empty result is the root "\".  The call fails only
\* for a NULL argument, which no call site passes.
PathCanonicalize(path) ==
    LET r == JoinPath(Simplify(SplitPath(path), << >>))
    IN  IF r = << >> THEN << BACKSLASH >> ELSE r

\* PathFindFileName(path): the text after the last separator ('\', '/' or ':')
\* that is followed by a character other than a separator.
PathFindFileName(path) ==
    LET starts == { i \in 1..(Len(path) - 1) :
                      /\ path[i] \in { BACKSLASH, SLASH, COLON }
                      /\ path[i + 1] \notin { BACKSLASH, SLASH } }
        last(S) == CHOOSE i \in S : \A k \in S : k <= i
    IN  IF starts = { } THEN path ELSE SubSeq(path, last(starts) + 1, Len(path))

(***************************************************************************)
(* class Hash and its five implementations                                 *)
(***************************************************************************)

HashIds == { "MD5", "SHA1", "SHA256", "SHA384", "SHA512" }

Id_MD5    == W(<< "M", "D", "5" >>)
Id_SHA1   == W(<< "S", "H", "A", "1" >>)
Id_SHA256 == W(<< "S", "H", "A", "2", "5", "6" >>)
Id_SHA384 == W(<< "S", "H", "A", "3", "8", "4" >>)
Id_SHA512 == W(<< "S", "H", "A", "5", "1", "2" >>)

\* Hash::GetID
GetID(h) ==
    CASE h = "MD5"    -> Id_MD5
      [] h = "SHA1"   -> Id_SHA1
      [] h = "SHA256" -> Id_SHA256
      [] h = "SHA384" -> Id_SHA384
      [] h = "SHA512" -> Id_SHA512

\* Hash::GetHashSize
GetHashSize(h) ==
    CASE h = "MD5"    -> 16
      [] h = "SHA1"   -> 20
      [] h = "SHA256" -> 32
      [] h = "SHA384" -> 48
      [] h = "SHA512" -> 64

\* Hash::GetHash(szHashId): the algorithm whose name equals szHashId ignoring
\* case, tried in the order SHA1, SHA256, SHA384, SHA512, MD5; "NULL" if none.
GetHash(szHashId) ==
    IF wcsicmp(szHashId, GetID("SHA1")) = 0 THEN "SHA1"
    ELSE IF wcsicmp(szHashId, GetID("SHA256")) = 0 THEN "SHA256"
    ELSE IF wcsicmp(szHashId, GetID("SHA384")) = 0 THEN "SHA384"
    ELSE IF wcsicmp(szHashId, GetID("SHA512")) = 0 THEN "SHA512"
    ELSE IF wcsicmp(szHashId, GetID("MD5")) = 0 THEN "MD5"
    ELSE "NULL"

\* Hash::Final: the digest of the bytes fed so far.  The OpenSSL compression
\* functions are outside the program; a digest of GetHashSize(h) bytes that is
\* a fixed function of the byte stream stands for them.
RECURSIVE Mix(_, _, _)
Mix(bytes, lo, hi) ==
    IF lo > hi THEN 0
    ELSE IF lo = hi THEN (bytes[lo] + 1) * lo
    ELSE LET mid == (lo + hi) \div 2
         IN  (Mix(bytes, lo, mid) + Mix(bytes, mid + 1, hi)) % 65521

HashFinal(h, bytes) ==
    LET m == Mix(bytes, 1, Len(bytes))
    IN  [i \in 1..GetHashSize(h) |-> (m * i + 7 * i * i + (m \div 256)) % 256]

(***************************************************************************)
(* Directory entries, ordering and exclusion                               *)
(***************************************************************************)

\* CDirContent(szPath, szName, bIsDir): the entry's full path.  A trailing '/'
\* of szPath becomes '\'; a '\' is added unless szPath ends with one.
CDirContentPath(szPath, szName) ==
    LET n  == Len(szPath)
        p1 == IF szPath[n] = SLASH THEN [szPath EXCEPT ![n] = BACKSLASH] ELSE szPath
        p2 == IF szPath[n] # BACKSLASH THEN p1 \o << BACKSLASH >> ELSE p1
    IN  p2 \o szName

\* obj is the file system object the entry names (what opening m_szPath yields).
CDirContent(szPath, szName, bIsDir, obj) ==
    [ m_szPath |-> CDirContentPath(szPath, szName), m_bIsDir |-> bIsDir, obj |-> obj ]

\* A comparison that a case-sensitive ordering would use.
compare_case(first, second) == wcscmp(first, second) < 0

\* Used for sorting directory content.
compare_nocase(first, second) == wcsicmp(first, second) < 0

\* std::list::sort(compare_nocase): a stable sort; entries that compare equal
\* keep the order in which they were pushed.
RECURSIVE InsertSorted(_, _)
InsertSorted(x, s) ==
    IF s = << >> THEN << x >>
    ELSE IF compare_nocase(x.m_szPath, Head(s).m_szPath) THEN << x >> \o s
    ELSE << Head(s) >> \o InsertSorted(x, Tail(s))

RECURSIVE ListSort(_)
ListSort(s) ==
    IF s = << >> THEN << >>
    ELSE InsertSorted(s[Len(s)], ListSort(SubSeq(s, 1, Len(s) - 1)))

\* IsExcludedName(szName, excludeSpecList)
IsExcludedName(szName, excludeSpecList) ==
    \E k \in 1..Len(excludeSpecList) : PathMatchSpec(szName, excludeSpecList[k])

\* The test that opens HashFile and HashDirectory: the path they were given,
\* if it is not longer than MAX_PATH, matches a pattern.
SkipsPath(szPath, excludeSpecList) ==
    /\ lstrlen(szPath) <= MAX_PATH
    /\ excludeSpecList # << >>
    /\ IsExcludedName(szPath, excludeSpecList)

\* The bytes of the name passed to Update when names are included: the raw
\* path if it is longer than MAX_PATH, else the canonicalized path.
NameBytes(szPath) ==
    IF lstrlen(szPath) > MAX_PATH THEN WBytes(szPath)
    ELSE WBytes(PathCanonicalize(szPath))

(***************************************************************************)
(* The inputs: command lines and file system contents                      *)
(***************************************************************************)

\* Bounds of the model.
MaxEntries   == 3     \* files and directories in a tree of Spec, the root not counted
MaxOptTokens == 3     \* option tokens on a command line of SpecCli

\* sizeof(g_pbBuffer)
BUFSIZE == 4096

\* A file system object: a file with its bytes, or a directory with its
\* entries in the order in which FindFirstFile / FindNextFile report them.
File(name, data) == [ name |-> name, isDir |-> FALSE, data |-> data, kids |-> << >> ]
Dir(name, kids)  == [ name |-> name, isDir |-> TRUE, data |-> << >>, kids |-> kids ]

Hello == W(<< "h", "e", "l", "l", "o" >>)
World == W(<< "w", "o", "r", "l", "d" >>)
\* A file one byte longer than the read buffer.
BigData == [i \in 1..(BUFSIZE + 1) |-> i % 251]

Name_a_txt     == W(<< "a", ".", "t", "x", "t" >>)
Name_b_txt     == W(<< "b", ".", "t", "x", "t" >>)
Name_B_txt     == W(<< "B", ".", "t", "x", "t" >>)
Name_notes_tmp == W(<< "n", "o", "t", "e", "s", ".", "t", "m", "p" >>)
Name_sub       == W(<< "s", "u", "b" >>)
Name_dot       == W(<< "." >>)
Name_dotdot    == W(<< ".", "." >>)

Files ==
    { File(Name_a_txt, Hello), File(Name_b_txt, World),
      File(Name_B_txt, W(<< "W" >>)), File(Name_notes_tmp, W(<< "t", "m", "p" >>)) }

\* The sequences of at most n objects of S with pairwise different names.
Listings(S, n) ==
    UNION { { q \in [1..k -> S] : \A i, j \in 1..k : i # j => q[i].name # q[j].name } :
            k \in 0..n }

\* The sequence q with x inserted so that it becomes element p.
InsertAt(q, p, x) == SubSeq(q, 1, p - 1) \o << x >> \o SubSeq(q, p, Len(q))

\* The directory trees hashed under Spec: files and at most one subdirectory
\* "sub" of files in the root, at most MaxEntries entries in all, in every
\* order of enumeration.
Trees ==
    { Dir(<< >>, q) : q \in Listings(Files, MaxEntries) }
    \cup
    { Dir(<< >>, InsertAt(r[1], r[3], Dir(Name_sub, r[2]))) :
        r \in { x \in Listings(Files, MaxEntries - 1) \X Listings(Files, MaxEntries - 1)
                       \X (1..MaxEntries) :
                  /\ Len(x[1]) + 1 + Len(x[2]) <= MaxEntries
                  /\ x[3] <= Len(x[1]) + 1 } }

\* The directory trees hashed under SpecCli and under a long root path.
FewTrees ==
    { Dir(<< >>, << >>),
      Dir(<< >>, << File(Name_notes_tmp, W(<< "t", "m", "p" >>)),
                    Dir(Name_sub, << File(Name_b_txt, World) >>),
                    File(Name_a_txt, Hello) >>) }

\* Input paths.
Path_t    == W(<< "t" >>)
Path_t_bs == W(<< "t", "\\" >>)
Path_u_t  == W(<< "u", "\\", ".", "\\", "t" >>)
\* The longest admitted input path: MAX_PATH - 3 characters.
Path_long == W(<< ".", "\\" >>) \o Rep("x", MAX_PATH - 5)
\* An input path beyond the admitted length.
Path_258  == Rep("y", MAX_PATH - 2)
Path_file == W(<< "t", "\\", "a", ".", "t", "x", "t" >>)

Sw_t         == W(<< "-", "t" >>)
Sw_nowait    == W(<< "-", "n", "o", "w", "a", "i", "t" >>)
Sw_hashnames == W(<< "-", "h", "a", "s", "h", "n", "a", "m", "e", "s" >>)
Sw_exclude   == W(<< "-", "e", "x", "c", "l", "u", "d", "e" >>)
Tok_out      == W(<< "o", "u", "t" >>)
Tok_md5      == W(<< "m", "d", "5" >>)
Tok_sha256   == W(<< "S", "H", "A", "2", "5", "6" >>)
Pat_sub      == Name_sub
Pat_tmp      == W(<< "*", ".", "t", "m", "p" >>)
Pat_u        == W(<< "u", "*" >>)
Prog         == W(<< "D", "i", "r", "H", "a", "s", "h" >>)

\* The exclusion lists of Spec.
ExcludeLists ==
    { << >>, << Pat_sub >>, << Pat_tmp >>, << Pat_u >>, << Pat_sub, Pat_tmp >> }

RECURSIVE Flat(_)
Flat(ss) == IF ss = << >> THEN << >> ELSE Head(ss) \o Flat(Tail(ss))

\* The command lines of Spec for an input path: optionally -hashnames, and
\* an -exclude switch for every pattern of an exclusion list.
CommandLines(paths) ==
    { << Prog, path >> \o names \o Flat([i \in 1..Len(pats) |-> << Sw_exclude, pats[i] >>]) :
        path \in paths, names \in { << >>, << Sw_hashnames >> }, pats \in ExcludeLists }

\* The command lines of SpecCli: any sequence of at most MaxOptTokens tokens
\* after the input path, and the command line without a path.
OptionTokens ==
    { Sw_t, Sw_nowait, Sw_hashnames, Sw_exclude, Tok_out, Tok_md5, Tok_sha256 }

CliCommandLines ==
    { << Prog >> } \cup
    { << Prog, path >> \o opts :
        path \in { Path_t_bs, Path_file, Path_258 },
        opts \in UNION { [1..k -> OptionTokens] : k \in 0..MaxOptTokens } }

\* What the input path names in the file system: nothing, a file or a directory.
Nothing == [ kind |-> "none", obj |-> Dir(<< >>, << >>) ]

(***************************************************************************)
(* The program state                                                       *)
(***************************************************************************)

VARIABLES
    argv,         \* the command line; argv[i + 1] here is argv[i] of _tmain
    fs,           \* what argv[1] names: [kind, obj]
    pc,           \* _tmain: "start", "hashing", "returned", "exit"
    opts,         \* _tmain's locals set by the argument loop
    stack,        \* the active HashDirectory / HashFile calls, innermost last
    ctx,          \* pHash's context: every byte passed to Update, in order
    handles,      \* open traversal handles (FindFirstFile, _tfopen in HashFile)
    dwError,      \* _tmain's dwError
    pbDigest,     \* _tmain's pbDigest after Final
    finalCalls,   \* number of calls of pHash->Final
    stdoutLine,   \* the result line printed by lines 502-508
    fileText,     \* the text written to outputFile
    exitCode,     \* the value _tmain returned
    fault,        \* history: the first FindFirstFile / FindNextFile / _tfopen that
                  \* failed, [kind, code, path]; kind "none" if none has
    readFailed    \* history: an fread of HashFile has failed

vars == << argv, fs, pc, opts, stack, ctx, handles, dwError, pbDigest,
           finalCalls, stdoutLine, fileText, exitCode, fault, readFailed >>

NO_ERROR == 0
ERROR_NO_MORE_FILES == 18
\* GetLastError() after a failed FindFirstFile / FindNextFile:
\* ERROR_PATH_NOT_FOUND, ERROR_ACCESS_DENIED.
OsErrors == { 3, 5 }

\* A DWORD is represented by the int that has the same 32 bits, so the
\* conversions between DWORD and int ("dwError = -1", "return dwError") keep
\* the value: the DWORD 0xFFFFFFFF is -1.
FILE_OPEN_FAILED == -1

argc == Len(argv)
Arg(i) == argv[i + 1]

NoOpts ==
    [ rc |-> 0, outputFile |-> FALSE, bDontWait |-> FALSE, bIncludeNames |-> FALSE,
      excludeSpecList |-> << >>, pHash |-> "NULL" ]

\* PathFileExists finds nothing at a path of MAX_PATH characters or more, no
\* file at a path that ends in a separator, and is not asked without a path.
Plausible(cmd, w) ==
    IF Len(cmd) < 2 THEN w.kind = "none"
    ELSE /\ Len(cmd[2]) >= MAX_PATH => w.kind = "none"
         /\ cmd[2][Len(cmd[2])] = BACKSLASH => w.kind # "file"

InitWith(cmds, world) ==
    /\ argv \in cmds
    /\ fs \in world
    /\ Plausible(argv, fs)
    /\ pc = "start"
    /\ opts = NoOpts
    /\ stack = << >>
    /\ ctx = << >>
    /\ handles = { }
    /\ dwError = 0
    /\ pbDigest = << >>
    /\ finalCalls = 0
    /\ stdoutLine = << >>
    /\ fileText = << >>
    /\ exitCode = 0
    /\ fault = [ kind |-> "none", code |-> 0, path |-> << >> ]
    /\ readFailed = FALSE

DirWorld(trees) == { [ kind |-> "dir", obj |-> t ] : t \in trees }
FileWorld(datas) == { [ kind |-> "file", obj |-> File(Name_a_txt, d) ] : d \in datas }

Init ==
    \/ InitWith(CommandLines({ Path_t, Path_u_t }), DirWorld(Trees))
    \/ InitWith(CommandLines({ Path_long }), DirWorld(FewTrees))
    \/ InitWith(CommandLines({ Path_file }), FileWorld({ BigData }))

InitCli ==
    InitWith(CliCommandLines,
             { Nothing } \cup DirWorld(FewTrees) \cup FileWorld({ << >>, Hello }))

(***************************************************************************)
(* _tmain, up to the call of HashDirectory / HashFile                      *)
(***************************************************************************)

\* The argument loop of _tmain from index i.  canOpen says whether _tfopen of
\* the result file succeeds.  rc = 1 is the "return 1" of a usage error.
RECURSIVE ParseArgs(_, _, _)
ParseArgs(i, st, canOpen) ==
    IF i >= argc THEN st
    ELSE IF Arg(i) = Sw_t
         THEN IF (i + 1) >= argc THEN [st EXCEPT !.rc = 1]
              ELSE IF ~canOpen THEN [st EXCEPT !.rc = 1]
              ELSE ParseArgs(i + 2, [st EXCEPT !.outputFile = TRUE], canOpen)
    ELSE IF Arg(i) = Sw_nowait
         THEN ParseArgs(i + 1, [st EXCEPT !.bDontWait = TRUE], canOpen)
    ELSE IF Arg(i) = Sw_hashnames
         THEN ParseArgs(i + 1, [st EXCEPT !.bIncludeNames = TRUE], canOpen)
    ELSE IF Arg(i) = Sw_exclude
         THEN IF (i + 1) >= argc THEN [st EXCEPT !.rc = 1]
              ELSE ParseArgs(i + 2,
                     [st EXCEPT !.excludeSpecList = Append(@, Arg(i + 1))], canOpen)
    ELSE IF GetHash(Arg(i)) = "NULL"
         THEN [st EXCEPT !.rc = 1, !.outputFile = FALSE]
         ELSE ParseArgs(i + 1, [st EXCEPT !.pHash = GetHash(Arg(i))], canOpen)

\* A new call of HashDirectory or HashFile on szPath.
Frame(fn, szPath, obj) ==
    [ fn |-> fn, szPath |-> szPath, obj |-> obj, at |-> "enter",
      dirContent |-> << >>, it |-> 1, dwError |-> 0, pos |-> 0 ]

\* The input path as passed to HashDirectory: without one trailing separator.
StripSeparator(path) ==
    IF path[Len(path)] \in { BACKSLASH, SLASH }
    THEN SubSeq(path, 1, Len(path) - 1)
    ELSE path

Exit(code) ==
    /\ pc' = "exit"
    /\ exitCode' = code
    /\ UNCHANGED << argv, fs, stack, ctx, handles, dwError, pbDigest,
                    finalCalls, stdoutLine, fileText, fault, readFailed >>

Main_Start ==
    /\ pc = "start"
    /\ IF argc < 2
       THEN opts' = opts /\ Exit(1)
       ELSE \E canOpen \in BOOLEAN :
              LET st == ParseArgs(2, NoOpts, canOpen)
                  o  == IF st.pHash = "NULL" THEN [st EXCEPT !.pHash = "SHA1"] ELSE st
                  length_of_arg == StringCchLength(Arg(1), MAX_PATH)
              IN  /\ opts' = o
                  /\ IF st.rc # 0 THEN Exit(1)
                     ELSE IF length_of_arg > (MAX_PATH - 3) THEN Exit(-1)
                     ELSE IF fs.kind = "none" THEN Exit(-2)
                     ELSE /\ pc' = "hashing"
                          /\ stack' = IF fs.kind = "dir"
                                      THEN << Frame("dir", StripSeparator(Arg(1)), fs.obj) >>
                                      ELSE << Frame("file", Arg(1), fs.obj) >>
                          /\ UNCHANGED << argv, fs, ctx, handles, dwError, pbDigest,
                                          finalCalls, stdoutLine, fileText, exitCode,
                                          fault, readFailed >>

(***************************************************************************)
(* HashDirectory and HashFile                                              *)
(***************************************************************************)

top == stack[Len(stack)]

\* "return v" of the innermost call: the caller's dwError receives v; the
\* outermost call returns to _tmain.
Return(v) ==
    IF Len(stack) = 1
    THEN /\ stack' = << >>
         /\ dwError' = v
         /\ pc' = "returned"
    ELSE /\ stack' = [SubSeq(stack, 1, Len(stack) - 1) EXCEPT ![Len(stack) - 1].dwError = v]
         /\ UNCHANGED << dwError, pc >>

\* The first failed I/O call is remembered.
Fault(kind, code) ==
    fault' = IF fault.kind = "none"
             THEN [ kind |-> kind, code |-> code, path |-> top.szPath ]
             ELSE fault

SetTop(f) == stack' = [stack EXCEPT ![Len(stack)] = f]

\* An open handle: its kind and the call (stack depth and path) that opened it.
Handle(kind) == [ kind |-> kind, depth |-> Len(stack), path |-> top.szPath ]

\* The head of HashDirectory (lines 255-271): whether the call returns at
\* once because the path is excluded, and the bytes passed to Update.
HashDirectoryHead(szDirPath, bIncludeNames, excludeSpecList) ==
    IF SkipsPath(szDirPath, excludeSpecList)
    THEN [ returns |-> TRUE, update |-> << >> ]
    ELSE [ returns |-> FALSE,
           update |-> IF bIncludeNames THEN NameBytes(szDirPath) ELSE << >> ]

\* HashDirectory up to and including FindFirstFile.
HashDirectory_Enter ==
    /\ pc = "hashing" /\ stack # << >>
    /\ top.fn = "dir" /\ top.at = "enter"
    /\ LET h == HashDirectoryHead(top.szPath, opts.bIncludeNames, opts.excludeSpecList)
       IN  /\ ctx' = ctx \o h.update
           /\ IF h.returns
              THEN /\ Return(0)
                   /\ UNCHANGED << handles, fault >>
              ELSE \/ /\ handles' = handles \cup { Handle("find") }
                      /\ SetTop([top EXCEPT !.at = "list"])
                      /\ UNCHANGED << dwError, pc, fault >>
                   \/ \E e \in OsErrors :
                         /\ Return(e)
                         /\ Fault("list", e)
                         /\ UNCHANGED handles
    /\ UNCHANGED << argv, fs, opts, pbDigest, finalCalls, stdoutLine, fileText, exitCode,
                    readFailed >>

\* What FindFirstFile / FindNextFile report for a directory: ".", ".." and its entries.
FindData(obj) == << Dir(Name_dot, << >>), Dir(Name_dotdot, << >>) >> \o obj.kids

\* The do-while loop over the find data: dirContent after the pushes.
RECURSIVE PushEntries(_, _)
PushEntries(szDirPath, ffds) ==
    IF ffds = << >> THEN << >>
    ELSE LET ffd == Head(ffds)
             rest == PushEntries(szDirPath, Tail(ffds))
         IN  IF ffd.isDir
             THEN IF ffd.name # Name_dot /\ ffd.name # Name_dotdot
                  THEN << CDirContent(szDirPath, ffd.name, TRUE, ffd) >> \o rest
                  ELSE rest
             ELSE << CDirContent(szDirPath, ffd.name, FALSE, ffd) >> \o rest

\* HashDirectory from the listing loop to the sort.
HashDirectory_List ==
    /\ pc = "hashing" /\ stack # << >>
    /\ top.fn = "dir" /\ top.at = "list"
    /\ \/ /\ handles' = handles \ { Handle("find") }
          /\ SetTop([top EXCEPT !.at = "iter", !.dwError = 0, !.it = 1,
                                !.dirContent = ListSort(PushEntries(top.szPath, FindData(top.obj)))])
          /\ UNCHANGED << dwError, pc, fault >>
       \/ \E e \in OsErrors :
             /\ e # ERROR_NO_MORE_FILES
             /\ Return(e)
             /\ Fault("list", e)
             /\ UNCHANGED handles
    /\ UNCHANGED << argv, fs, opts, ctx, pbDigest, finalCalls, stdoutLine, fileText, exitCode,
                    readFailed >>

\* A loop that goes on to the next entry whatever the call returned.
BreaksOn_Never(err) == FALSE

\* "if (dwError) break;" after a call in the loop over the sorted entries.
BreaksOn(err) == err # 0

\* One round of the loop over the sorted entries: the call for the next
\* entry, or the return of dwError after a break or after the last entry.
HashDirectory_Iterate ==
    /\ pc = "hashing" /\ stack # << >>
    /\ top.fn = "dir" /\ top.at = "iter"
    /\ IF BreaksOn(top.dwError) \/ top.it > Len(top.dirContent)
       THEN Return(top.dwError)
       ELSE LET e == top.dirContent[top.it]
            IN  /\ stack' = Append([stack EXCEPT ![Len(stack)].it = top.it + 1],
                                   Frame(IF e.m_bIsDir THEN "dir" ELSE "file", e.m_szPath, e.obj))
                /\ UNCHANGED << dwError, pc >>
    /\ UNCHANGED << argv, fs, opts, ctx, handles, pbDigest, finalCalls, stdoutLine,
                    fileText, exitCode, fault, readFailed >>

\* A head of HashFile that folds the name in before it tests the exclusion.
HashFileHead_NameFirst(szFilePath, bIncludeNames, excludeSpecList) ==
    [ returns |-> SkipsPath(szFilePath, excludeSpecList),
      update  |-> IF bIncludeNames THEN NameBytes(szFilePath) ELSE << >> ]

\* The head of HashFile (lines 213-229): whether the call returns at once
\* because the path is excluded, and the bytes passed to Update.
HashFileHead(szFilePath, bIncludeNames, excludeSpecList) ==
    IF SkipsPath(szFilePath, excludeSpecList)
    THEN [ returns |-> TRUE, update |-> << >> ]
    ELSE [ returns |-> FALSE,
           update |-> IF bIncludeNames THEN NameBytes(szFilePath) ELSE << >> ]

\* HashFile up to and including _tfopen.
HashFile_Enter ==
    /\ pc = "hashing" /\ stack # << >>
    /\ top.fn = "file" /\ top.at = "enter"
    /\ LET h == HashFileHead(top.szPath, opts.bIncludeNames, opts.excludeSpecList)
       IN  /\ ctx' = ctx \o h.update
           /\ IF h.returns
              THEN /\ Return(0)
                   /\ UNCHANGED << handles, fault >>
              ELSE \/ /\ handles' = handles \cup { Handle("file") }
                      /\ SetTop([top EXCEPT !.at = "read", !.pos = 0])
                      /\ UNCHANGED << dwError, pc, fault >>
                   \/ /\ Return(FILE_OPEN_FAILED)
                      /\ Fault("open", FILE_OPEN_FAILED)
                      /\ UNCHANGED handles
    /\ UNCHANGED << argv, fs, opts, pbDigest, finalCalls, stdoutLine, fileText, exitCode,
                    readFailed >>

\* One fread of the loop of HashFile.  fread returns the bytes left, at most
\* sizeof(g_pbBuffer), or 0 when the read fails; on 0 the loop ends, the file
\* is closed and dwError, still 0, is returned.
HashFile_Read ==
    /\ pc = "hashing" /\ stack # << >>
    /\ top.fn = "file" /\ top.at = "read"
    /\ \E failed \in BOOLEAN :
          LET left == Len(top.obj.data) - top.pos
              len  == IF failed THEN 0 ELSE IF left > BUFSIZE THEN BUFSIZE ELSE left
          IN  /\ failed => left > 0
              /\ readFailed' = (readFailed \/ failed)
              /\ IF len # 0
                 THEN /\ ctx' = ctx \o SubSeq(top.obj.data, top.pos + 1, top.pos + len)
                      /\ SetTop([top EXCEPT !.pos = top.pos + len])
                      /\ UNCHANGED << dwError, pc, handles >>
                 ELSE /\ handles' = handles \ { Handle("file") }
                      /\ Return(top.dwError)
                      /\ UNCHANGED ctx
    /\ UNCHANGED << argv, fs, opts, pbDigest, finalCalls, stdoutLine, fileText, exitCode, fault >>

(***************************************************************************)
(* _tmain after the call: Final, the result lines, the exit status         *)
(***************************************************************************)

Digit0 == Ord("0")

\* printf("%d", n) for n >= 0
RECURSIVE FormatD(_)
FormatD(n) ==
    IF n < 10 THEN << Digit0 + n >>
    ELSE FormatD(n \div 10) \o << Digit0 + (n % 10) >>

\* One lower-case hexadecimal digit ("%.2x").
HexDigit_Lower(v) == IF v < 10 THEN Digit0 + v ELSE LowerA + (v - 10)

\* One upper-case hexadecimal digit.
HexDigit(v) == IF v < 10 THEN Digit0 + v ELSE UpperA + (v - 10)

\* printf("%.2X", b) for a byte b: at least two digits, padded with zeros.
FormatX2(b) == << HexDigit(b \div 16), HexDigit(b % 16) >>

\* The digest as printed by the loop of lines 503-507.
RECURSIVE FormatDigest(_)
FormatDigest(d) ==
    IF d = << >> THEN << >> ELSE FormatX2(Head(d)) \o FormatDigest(Tail(d))

Txt_open   == W(<< " ", "(" >>)
Txt_bytes  == W(<< " ", "b", "y", "t", "e", "s", ")", " ", "=", " " >>)
Txt_hashof == W(<< " ", "h", "a", "s", "h", " ", "o", "f", " ", "\"" >>)
Txt_quote  == W(<< "\"", " ", "(" >>)

\* _tprintf(_T("%s (%d bytes) = "), GetID(), GetHashSize())
StdoutHeader(h) == GetID(h) \o Txt_open \o FormatD(GetHashSize(h)) \o Txt_bytes

\* _ftprintf(outputFile, __T("%s hash of \"%s\" (%d bytes) = "), GetID(),
\*           PathFindFileName(argv[1]), GetHashSize())
FileHeader(h, path) ==
    GetID(h) \o Txt_hashof \o PathFindFileName(path) \o Txt_quote
             \o FormatD(GetHashSize(h)) \o Txt_bytes

Main_Finish ==
    /\ pc = "returned"
    /\ pc' = "exit"
    /\ exitCode' = dwError
    /\ IF dwError = NO_ERROR
       THEN LET d == HashFinal(opts.pHash, ctx)
            IN  /\ pbDigest' = d
                /\ finalCalls' = finalCalls + 1
                /\ stdoutLine' = StdoutHeader(opts.pHash) \o FormatDigest(d) \o << NEWLINE >>
                /\ fileText' = IF opts.outputFile
                               THEN FileHeader(opts.pHash, Arg(1)) \o FormatDigest(d) \o << NEWLINE >>
                               ELSE fileText
       ELSE UNCHANGED << pbDigest, finalCalls, stdoutLine, fileText >>
    /\ UNCHANGED << argv, fs, opts, stack, ctx, handles, dwError, fault, readFailed >>

Next ==
    \/ Main_Start
    \/ HashDirectory_Enter
    \/ HashDirectory_List
    \/ HashDirectory_Iterate
    \/ HashFile_Enter
    \/ HashFile_Read
    \/ Main_Finish

\* Runs on directory trees, with and without names and exclusions.
Spec == Init /\ [][Next]_vars

\* Runs on arbitrary short command lines.
SpecCli == InitCli /\ [][Next]_vars

(***************************************************************************)
(* HashFile and HashDirectory as functions: the bytes a call passes to     *)
(* Update when no I/O call fails                                           *)
(***************************************************************************)

HashFileBytes(szFilePath, obj, bIncludeNames, excludeSpecList) ==
    LET h == HashFileHead(szFilePath, bIncludeNames, excludeSpecList)
    IN  h.update \o (IF h.returns THEN << >> ELSE obj.data)

RECURSIVE HashDirectoryBytes(_, _, _, _)
RECURSIVE HashEntriesBytes(_, _, _)

\* The loop over the sorted entries.
HashEntriesBytes(entries, bIncludeNames, excludeSpecList) ==
    IF entries = << >> THEN << >>
    ELSE LET e == Head(entries)
         IN  (IF e.m_bIsDir
              THEN HashDirectoryBytes(e.m_szPath, e.obj, bIncludeNames, excludeSpecList)
              ELSE HashFileBytes(e.m_szPath, e.obj, bIncludeNames, excludeSpecList))
             \o HashEntriesBytes(Tail(entries), bIncludeNames, excludeSpecList)

HashDirectoryBytes(szDirPath, obj, bIncludeNames, excludeSpecList) ==
    LET h == HashDirectoryHead(szDirPath, bIncludeNames, excludeSpecList)
    IN  h.update \o
        (IF h.returns THEN << >>
         ELSE HashEntriesBytes(ListSort(PushEntries(szDirPath, FindData(obj))),
                               bIncludeNames, excludeSpecList))

\* The bytes of a whole run on input path `path` naming w = [kind, obj].
RunBytes(path, w, bIncludeNames, excludeSpecList) ==
    IF w.kind = "dir"
    THEN HashDirectoryBytes(StripSeparator(path), w.obj, bIncludeNames, excludeSpecList)
    ELSE HashFileBytes(path, w.obj, bIncludeNames, excludeSpecList)

(***************************************************************************)
(* Notions the properties are stated with                                  *)
(***************************************************************************)

\* The outermost HashDirectory call has returned to _tmain, no I/O call
\* having failed.
CleanDirReturn ==
    /\ pc = "returned" /\ fs.kind = "dir"
    /\ fault.kind = "none" /\ ~readFailed

\* The path HashDirectory was called with.
RootPath == StripSeparator(Arg(1))

\* The permutations of a sequence.
Perms(q) ==
    { [i \in 1..Len(q) |-> q[f[i]]] :
        f \in { g \in [1..Len(q) -> 1..Len(q)] : \A i, j \in 1..Len(q) : i # j => g[i] # g[j] } }

\* The sequences made of one element of each set of a sequence of sets, concatenated.
RECURSIVE Concats(_)
Concats(sets) ==
    IF sets = << >> THEN { << >> }
    ELSE { a \o b : a \in Head(sets), b \in Concats(Tail(sets)) }

\* The same tree under every order of enumeration of every directory.
RECURSIVE Reorderings(_)
Reorderings(obj) ==
    IF ~obj.isDir THEN { obj }
    ELSE { [obj EXCEPT !.kids = r] :
             r \in UNION { LET sets == [i \in 1..Len(q) |-> { << k >> : k \in Reorderings(q[i]) }]
                           IN  Concats(sets) : q \in Perms(obj.kids) } }

\* The full path of the child `name` of the directory at `path`.
ChildPath(path, name) == path \o << BACKSLASH >> \o name

\* The last path component.
BaseName(path) == LET segs == SplitPath(path) IN segs[Len(segs)]

\* The text of a path that is folded into the hash: canonicalized, or raw
\* beyond MAX_PATH.
PathText(path) == IF Len(path) > MAX_PATH THEN path ELSE PathCanonicalize(path)

FoldedName(path, includeNames) == IF includeNames THEN WBytes(PathText(path)) ELSE << >>

\* a sorts no later than b in case-insensitive lexicographic order.
NoCaseLeq(a, b) == wcsicmp(a, b) <= 0

\* The depth-first pre-order flattenings of a tree: the directory's name,
\* then its children in an ascending case-insensitive order of full path,
\* each flattened completely before the next; a file is its name and bytes.
RECURSIVE Flattenings(_, _, _)
Flattenings(path, obj, includeNames) ==
    IF ~obj.isDir THEN { FoldedName(path, includeNames) \o obj.data }
    ELSE LET ascending ==
                 { q \in Perms(obj.kids) :
                     \A i, j \in 1..Len(q) :
                        i < j => NoCaseLeq(ChildPath(path, q[i].name), ChildPath(path, q[j].name)) }
             bodies(q) ==
                 Concats([i \in 1..Len(q) |->
                            Flattenings(ChildPath(path, q[i].name), q[i], includeNames)])
         IN  { FoldedName(path, includeNames) \o b : b \in UNION { bodies(q) : q \in ascending } }

\* The tree of the specification's end-to-end scenario, "sub" enumerated first.
ScenarioTree ==
    Dir(<< >>, << Dir(Name_sub, << File(Name_b_txt, World) >>), File(Name_a_txt, Hello) >>)

\* The sequence q without its element i.
RemoveAt(q, i) == SubSeq(q, 1, i - 1) \o SubSeq(q, i + 1, Len(q))

\* HashFile is called on path with a pattern set that excludes it.
ExcludedFile(path, excludeSpecList) ==
    Len(path) <= MAX_PATH /\ IsExcludedName(path, excludeSpecList)

\* The trees that lack exactly one file of the tree obj at root which the
\* pattern set excludes.
WithoutOneExcludedFile(root, obj, excludeSpecList) ==
    { [obj EXCEPT !.kids = RemoveAt(obj.kids, i)] :
        i \in { k \in 1..Len(obj.kids) :
                  /\ ~obj.kids[k].isDir
                  /\ ExcludedFile(CDirContentPath(root, obj.kids[k].name), excludeSpecList) } }
    \cup
    { [obj EXCEPT !.kids[ij[1]].kids = RemoveAt(obj.kids[ij[1]].kids, ij[2])] :
        ij \in { x \in (1..Len(obj.kids)) \X (1..MaxEntries) :
                   /\ obj.kids[x[1]].isDir
                   /\ x[2] <= Len(obj.kids[x[1]].kids)
                   /\ ~obj.kids[x[1]].kids[x[2]].isDir
                   /\ ExcludedFile(
                        CDirContentPath(CDirContentPath(root, obj.kids[x[1]].name),
                                        obj.kids[x[1]].kids[x[2]].name),
                        excludeSpecList) } }

\* Some pattern matches the base name.
BaseNameExcluded(name, excludeSpecList) ==
    \E k \in 1..Len(excludeSpecList) : PathMatchSpec(name, excludeSpecList[k])

\* The tree without the entries whose base name a pattern matches.
RECURSIVE PruneByBaseName(_, _)
PruneByBaseName(obj, excludeSpecList) ==
    LET keep == { i \in 1..Len(obj.kids) : ~BaseNameExcluded(obj.kids[i].name, excludeSpecList) }
        nth(k) == CHOOSE i \in keep : Cardinality({ j \in keep : j < i }) = k - 1
    IN  [obj EXCEPT !.kids = [k \in 1..Cardinality(keep) |->
                                PruneByBaseName(obj.kids[nth(k)], excludeSpecList)]]

\* The input paths of Spec that keep every path of a tree well below MAX_PATH.
ShortRoots == { Path_t, Path_u_t }

\* The value of an upper-case hexadecimal digit, -1 for any other character.
HexVal(c) ==
    IF c >= Ord("0") /\ c <= Ord("9") THEN c - Ord("0")
    ELSE IF c >= Ord("A") /\ c <= Ord("F") THEN 10 + (c - Ord("A"))
    ELSE -1

\* text is header, then two upper-case hexadecimal digits for every byte of
\* digest in order, then a newline.
IsResultLine(text, header, digest) ==
    LET n == Len(header)
    IN  /\ Len(text) = n + 2 * Len(digest) + 1
        /\ SubSeq(text, 1, n) = header
        /\ \A i \in 1..Len(digest) :
              /\ HexVal(text[n + 2 * i - 1]) >= 0
              /\ HexVal(text[n + 2 * i]) >= 0
              /\ 16 * HexVal(text[n + 2 * i - 1]) + HexVal(text[n + 2 * i]) = digest[i]
        /\ text[Len(text)] = NEWLINE

(***************************************************************************)
(* The claims                                                              *)
(***************************************************************************)

\* C1: for a fixed tree and configuration the bytes fed to the hash by
\* HashDirectory are the same for every order in which FindFirstFile /
\* FindNextFile may enumerate the children of each directory, names that are
\* equal under compare_nocase included.
C1_EnumerationOrderIrrelevant ==
    CleanDirReturn =>
        \A t \in Reorderings(fs.obj) :
            HashDirectoryBytes(RootPath, t, opts.bIncludeNames, opts.excludeSpecList) = ctx

\* C2: with no exclusions and no I/O errors the bytes fed to the hash by
\* HashDirectory(root) are a depth-first pre-order flattening of the tree with
\* the children of every directory in ascending case-insensitive order of
\* full path; without names the scenario tree feeds "helloworld" and an empty
\* directory feeds nothing.
C2_PreOrderFlattening ==
    (CleanDirReturn /\ opts.excludeSpecList = << >>) =>
        /\ dwError = 0
        /\ ctx \in Flattenings(RootPath, fs.obj, opts.bIncludeNames)
        /\ (fs.obj \in Reorderings(ScenarioTree) /\ ~opts.bIncludeNames) => ctx = Hello \o World
        /\ (fs.obj.kids = << >> /\ ~opts.bIncludeNames) => ctx = << >>

\* C2's case: the scenario tree, "sub" enumerated before "a.txt", has been
\* hashed without names and exclusions and fed "helloworld".
C2_Witness ==
    /\ CleanDirReturn /\ opts.excludeSpecList = << >> /\ ~opts.bIncludeNames
    /\ fs.obj = ScenarioTree
    /\ ctx = Hello \o World

\* C3: an entry whose path is not longer than MAX_PATH is excluded iff a
\* pattern matches its base name; so the bytes fed to the hash are those of
\* the tree without the entries (and their descendants) whose base name a
\* pattern matches.
C3_BaseNameDecidesExclusion ==
    (CleanDirReturn /\ Arg(1) = Path_t) =>
        ctx = IF BaseNameExcluded(BaseName(RootPath), opts.excludeSpecList) THEN << >>
              ELSE HashDirectoryBytes(RootPath, PruneByBaseName(fs.obj, opts.excludeSpecList),
                                      opts.bIncludeNames, << >>)

\* C4: a file that the pattern set excludes (HashFile's own test: path not
\* longer than MAX_PATH and IsExcludedName on the path it is given) is never
\* opened and adds no byte, name or content, and the run succeeds: the bytes
\* fed to the hash for the tree are those fed for the tree without that file.
\* Which names the test matches is the subject of C3, not of this claim.
C4_ExcludedFileAsAbsent ==
    /\ \A k \in 1..Len(stack) :
          (stack[k].fn = "file" /\ stack[k].at = "read")
              => ~ExcludedFile(stack[k].szPath, opts.excludeSpecList)
    /\ CleanDirReturn =>
          /\ dwError = 0
          /\ \A t \in WithoutOneExcludedFile(RootPath, fs.obj, opts.excludeSpecList) :
                HashDirectoryBytes(RootPath, t, opts.bIncludeNames, opts.excludeSpecList) = ctx

\* C4's case: "notes.tmp" (enumerated first) and "a.txt" have been hashed
\* with names under the pattern "*.tmp"; the hash was fed what it is fed for
\* "a.txt" alone.
C4_Witness ==
    /\ CleanDirReturn /\ opts.bIncludeNames /\ opts.excludeSpecList = << Pat_tmp >>
    /\ Arg(1) = Path_t
    /\ fs.obj = Dir(<< >>, << File(Name_notes_tmp, W(<< "t", "m", "p" >>)), File(Name_a_txt, Hello) >>)
    /\ ctx = WBytes(Path_t) \o WBytes(ChildPath(Path_t, Name_a_txt)) \o Hello

\* C5: without names, the same content tree reached through another root
\* path feeds the same bytes to the hash, whatever the exclusion patterns.
C5_RootPathIrrelevant ==
    (CleanDirReturn /\ ~opts.bIncludeNames /\ Arg(1) \in ShortRoots) =>
        \A r \in ShortRoots :
            HashDirectoryBytes(StripSeparator(r), fs.obj, FALSE, opts.excludeSpecList) = ctx

\* C6: once a directory listing or a file open has failed, the failing call
\* has returned a non-zero error that every enclosing call returns unchanged;
\* no further entry is visited, nothing more is fed to the hash, Final is not
\* called, no result line is written, and the exit status is that error.
C6_FailFast ==
    [][ /\ fault'.kind # "none" =>
              /\ fault'.code # 0
              /\ finalCalls' = 0 /\ stdoutLine' = << >> /\ fileText' = << >>
              /\ IF stack' # << >>
                 THEN stack'[Len(stack')].dwError = fault'.code
                 ELSE dwError' = fault'.code
              /\ pc' = "exit" => (exitCode' = fault'.code /\ exitCode' # 0)
        /\ fault.kind # "none" =>
              /\ ctx' = ctx
              /\ Len(stack') <= Len(stack)
              /\ handles' \subseteq handles
      ]_vars

\* C6's case: a file of "sub" could not be opened, the root has another entry,
\* and the run has ended with the error of the open as its exit status.
C6_Witness ==
    /\ pc = "exit" /\ fault.kind = "open"
    /\ Len(SplitPath(fault.path)) = 3
    /\ Len(fs.obj.kids) >= 2
    /\ exitCode = FILE_OPEN_FAILED

\* C7: the exit status names the outcome: 0 exactly when the tree was fully
\* hashed and the digest emitted, 1 for usage errors, -1 for an input path
\* longer than MAX_PATH - 3, -2 for a nonexistent input path, and for a failed
\* listing or open an error code that is none of these.
C7_ExitStatusNamesOutcome ==
    pc = "exit" =>
        /\ (exitCode = 0) <=>
              /\ stdoutLine # << >>
              /\ ctx = RunBytes(Arg(1), fs, opts.bIncludeNames, opts.excludeSpecList)
        /\ (argc < 2 \/ ParseArgs(2, NoOpts, TRUE).rc = 1) => exitCode = 1
        /\ (argc >= 2 /\ opts.rc = 0 /\ Len(Arg(1)) > MAX_PATH - 3) => exitCode = -1
        /\ (argc >= 2 /\ opts.rc = 0 /\ Len(Arg(1)) <= MAX_PATH - 3 /\ fs.kind = "none")
              => exitCode = -2
        /\ fault.kind # "none" => exitCode \notin { 0, 1, -1, -2 }

\* C8 as stated: on a successful run with -t the text appended to the result
\* file is the result line written to standard output.
C8_FileTextIsStdoutLine ==
    (pc = "exit" /\ exitCode = 0 /\ opts.outputFile) => fileText = stdoutLine

\* C8 as amended: on a successful run standard output gets
\* "<ALGO> (<N> bytes) = ", the digest as 2 * N upper-case hexadecimal digits
\* and a newline; with -t the result file gets the same digits and newline
\* after "<ALGO> hash of "<file name of the input path>" (<N> bytes) = ".
C8_ResultLines ==
    (pc = "exit" /\ finalCalls = 1) =>
        /\ Len(pbDigest) = GetHashSize(opts.pHash)
        /\ IsResultLine(stdoutLine,
                        GetID(opts.pHash) \o Txt_open \o FormatD(GetHashSize(opts.pHash))
                            \o Txt_bytes,
                        pbDigest)
        /\ IF opts.outputFile
           THEN IsResultLine(fileText,
                             GetID(opts.pHash) \o Txt_hashof \o PathFindFileName(Arg(1))
                                 \o Txt_quote \o FormatD(GetHashSize(opts.pHash)) \o Txt_bytes,
                             pbDigest)
           ELSE fileText = << >>

\* C8's case: a directory was hashed with MD5 and -t, and both lines are written.
C8_Witness ==
    /\ pc = "exit" /\ exitCode = 0 /\ opts.outputFile /\ opts.pHash = "MD5"
    /\ fs.kind = "dir" /\ fs.obj.kids # << >>
    /\ stdoutLine # << >>
    /\ Len(fileText) > Len(stdoutLine)

\* C9: a digest is emitted only if every byte of every visited, non-excluded
\* file was fed to the hash.
C9_DigestOnlyOfWholeContent ==
    (pc = "exit" /\ finalCalls > 0) =>
        ctx = RunBytes(Arg(1), fs, opts.bIncludeNames, opts.excludeSpecList)

\* C10: every traversal handle is closed before the call that opened it
\* returns, so an open handle belongs to a call that is active and is
\* listing or reading, and at most one is open.
C10_HandlesClosedOnReturn ==
    /\ \A h \in handles :
          /\ h.depth <= Len(stack)
          /\ stack[h.depth].szPath = h.path
          /\ stack[h.depth].at = (IF h.kind = "find" THEN "list" ELSE "read")
    /\ Cardinality(handles) <= 1

=============================================================================
